---- MODULE Spec2Model ----
(***************************************************************************)
(* Model of the retrieval engine (rag_system.py) and of the tool-calling   *)
(* conversation loop behind the /ask endpoint (api.py).                    *)
(*                                                                         *)
(* Python values are modelled as follows.                                  *)
(*   - a str is a sequence of characters; a character is a natural         *)
(*     number and SPACE (0) is the only whitespace character;              *)
(*   - None is a record with a FALSE presence flag (init / present);       *)
(*   - a call that can raise returns a record with a field `raised`        *)
(*     holding the exception's name ("" when the call returns);            *)
(*   - a numpy array is [ndim, n, d, rows]; a FAISS IndexFlatL2 is         *)
(*     [d, xb] with xb the stored vectors in insertion order.              *)
(***************************************************************************)
EXTENDS Integers, Sequences, FiniteSets, TLC

VARIABLES
    rags,        \* heap of RAGSystem objects, by reference 1..Len(rags)
    rag_system,  \* api.py module global: 0 (None) or a reference into rags
    disk,        \* the rag_index directory and its three files
    sessions,    \* api.py module global: session id -> session (or absent)
    req,         \* the /ask request being handled by the event loop
    resp,        \* the last HTTP response produced by /ask
    last,        \* the last RAGSystem method call and its outcome
    saved,       \* the RAGSystem as it was when save_index last completed
    chunker      \* a DocumentChunker and its last chunk_text call

vars == <<rags, rag_system, disk, sessions, req, resp, last, saved, chunker>>

(***************************************************************************)
(* Bounds of the model                                                     *)
(***************************************************************************)
\* number of words of the long document (more than one chunk)
LongLen == 451
\* number of words of the short document
ShortLen == 2
\* largest number of entries an index is grown to by ingestion
MaxEntries == 2
\* largest documents_processed an ingestion counts up to
MaxDocs == 2
\* largest k passed to search / retrieve
MaxK == 3
\* embedding dimensions the configured deployments can produce
MaxDim == 2

(***************************************************************************)
(* Program constants                                                       *)
(***************************************************************************)
\* RAGSystem.__init__: DocumentChunker(chunk_size=500, overlap=50)
chunk_size == 500
overlap == 50
\* generate_embeddings_batch: batch_size = 100
batch_size == 100
\* the whitespace character
SPACE == 0
\* distance FAISS reports with the label -1 when fewer than k vectors are
\* stored (FLT_MAX for an L2 index; any number above every real distance)
FLT_MAX == 1000000

(***************************************************************************)
(* Python helpers                                                          *)
(***************************************************************************)
Min(a, b) == IF a <= b THEN a ELSE b

Range(s) == {s[i] : i \in DOMAIN s}

\* s[a:b] without its last element
Slice_short(s, a, b) == SubSeq(s, a + 1, Min(b, Len(s)) - 1)

\* s[a:b] for 0 <= a, with Python's clamping of b
Slice(s, a, b) == SubSeq(s, a + 1, Min(b, Len(s)))

\* str.split(): the maximal runs of non-whitespace characters, in order.
\* A word starts at i when text[i] is no whitespace and i is the first
\* character or follows whitespace; it ends before the next whitespace.
WordStart(text, i) == text[i] # SPACE /\ (i = 1 \/ text[i - 1] = SPACE)

RECURSIVE WordEnd(_, _)
WordEnd(text, i) ==
    IF i = Len(text) \/ text[i + 1] = SPACE THEN i ELSE WordEnd(text, i + 1)

\* the words of text that start at the positions lo..hi
RECURSIVE WordsFrom(_, _, _)
WordsFrom(text, lo, hi) ==
    IF lo > hi THEN <<>>
    ELSE IF lo = hi
    THEN IF WordStart(text, lo) THEN <<SubSeq(text, lo, WordEnd(text, lo))>> ELSE <<>>
    ELSE LET mid == (lo + hi) \div 2
         IN  WordsFrom(text, lo, mid) \o WordsFrom(text, mid + 1, hi)

split(text) == WordsFrom(text, 1, Len(text))

\* ' '.join(words[lo..hi])
RECURSIVE JoinRange(_, _, _)
JoinRange(words, lo, hi) ==
    IF lo > hi THEN <<>>
    ELSE IF lo = hi THEN words[lo]
    ELSE LET mid == (lo + hi) \div 2
         IN  JoinRange(words, lo, mid) \o <<SPACE>> \o JoinRange(words, mid + 1, hi)

\* ' '.join(words)
join(words) == JoinRange(words, 1, Len(words))

(***************************************************************************)
(* DocumentChunker                                                         *)
(***************************************************************************)
\* range(0, n, step) with the bound n itself among the values
PyRange_inclusive(n, step) ==
    IF step < 0 THEN <<>>
    ELSE [k \in 1..((n \div step) + 1) |-> (k - 1) * step]

\* range(0, n, step) for n >= 0 and step # 0: empty for a negative step
PyRange(n, step) ==
    IF step < 0 THEN <<>>
    ELSE [k \in 1..((n + step - 1) \div step) |-> (k - 1) * step]

\* DocumentChunker.__init__: the two attributes are stored as given
DocumentChunker(cs, ov) == [chunk_size |-> cs, overlap |-> ov]

\* chunk_text_with with end_idx taken from the window, i + chunk_size
chunk_text_with_window_end(text, metadata, cs, ov) ==
    LET words == split(text)
        starts == PyRange(Len(words), cs - ov)
    IN  [c \in 1..Len(starts) |->
            LET i == starts[c]
                chunk_words == Slice(words, i, i + cs)
            IN  [text |-> join(chunk_words),
                 metadata |-> metadata,
                 start_idx |-> i,
                 end_idx |-> i + cs]]

\* DocumentChunker.chunk_text with the chunker's chunk_size and overlap
chunk_text_with(text, metadata, cs, ov) ==
    LET words == split(text)
        starts == PyRange(Len(words), cs - ov)
    IN  [c \in 1..Len(starts) |->
            LET i == starts[c]
                chunk_words == Slice(words, i, i + cs)
            IN  [text |-> join(chunk_words),
                 metadata |-> metadata,
                 start_idx |-> i,
                 end_idx |-> i + Len(chunk_words)]]

chunk_text(text, metadata) == chunk_text_with(text, metadata, chunk_size, overlap)

\* a call of chunk_text on a DocumentChunker: range() raises ValueError for
\* a step of zero
chunk_text_call(c, text, metadata) ==
    IF c.chunk_size - c.overlap = 0
    THEN [raised |-> "ValueError", value |-> <<>>]
    ELSE [raised |-> "",
          value |-> chunk_text_with(text, metadata, c.chunk_size, c.overlap)]

(***************************************************************************)
(* The documents directory and the embedding deployment                    *)
(***************************************************************************)
\* a text of n one-character words separated by single spaces
TextOfWords(n) == join([k \in 1..n |-> <<k>>])

\* documents/*.txt: file name -> content
DocNames == {"empty.txt", "short.txt", "long.txt", "many.txt"}

\* the least number of words the chunker makes more chunks of than one
\* embeddings.create call takes
ManyLen == batch_size * (chunk_size - overlap) + 1

documents ==
    [name \in DocNames |->
        CASE name = "empty.txt" -> <<>>
          [] name = "short.txt" -> TextOfWords(ShortLen)
          [] name = "long.txt" -> TextOfWords(LongLen)
          [] name = "many.txt" -> TextOfWords(ManyLen)]

\* the queries users and the model send to the retrieval tool
Queries == {<<5>>, <<6, SPACE, 7>>}

Dims == 1..MaxDim

\* The embedding deployment: a deterministic map from a text to a vector of
\* the deployment's dimension d (EmbeddingGenerator.generate_embedding).
Embed(text, d) ==
    [j \in 1..d |->
        IF Len(text) = 0 THEN 0 ELSE ((Len(text) \div j) + text[1]) % 3]

\* np.array(list of vectors): shape (n, d), or (0,) for an empty list
NpArray(rows) ==
    IF Len(rows) = 0
    THEN [ndim |-> 1, n |-> 0, d |-> 0, rows |-> <<>>]
    ELSE [ndim |-> 2, n |-> Len(rows), d |-> Len(rows[1]), rows |-> rows]

\* the slices texts[i:i + batch_size] of generate_embeddings_batch
Batches(texts) ==
    LET starts == PyRange(Len(texts), batch_size)
    IN  [b \in 1..Len(starts) |-> Slice(texts, starts[b], starts[b] + batch_size)]

\* EmbeddingGenerator.generate_embeddings_batch; fail_at is the number of the
\* batch whose embeddings.create call raises (0: every call returns)
generate_embeddings_batch(texts, d, fail_at) ==
    LET batches == Batches(texts)
    IN  IF fail_at \in 1..Len(batches)
        THEN [raised |-> "EmbeddingServiceError", value |-> NpArray(<<>>)]
        ELSE [raised |-> "",
              value |-> NpArray([i \in 1..Len(texts) |-> Embed(texts[i], d)])]

(***************************************************************************)
(* FAISS IndexFlatL2                                                       *)
(***************************************************************************)
IndexFlatL2(d) == [d |-> d, xb |-> <<>>]

\* index.add(x): the wrapper unpacks n, d = x.shape and asserts d == self.d
faiss_add(index, x) ==
    IF x.ndim # 2 THEN [raised |-> "ValueError", index |-> index]
    ELSE IF x.d # index.d THEN [raised |-> "AssertionError", index |-> index]
    ELSE [raised |-> "", index |-> [index EXCEPT !.xb = @ \o x.rows]]

RECURSIVE SqDist(_, _)
SqDist(u, v) ==
    IF Len(u) = 0 THEN 0
    ELSE (u[1] - v[1]) * (u[1] - v[1]) + SqDist(Tail(u), Tail(v))

\* position p comes before position q in the result of a search for v
Closer(index, v, p, q) ==
    LET dp == SqDist(index.xb[p], v)
        dq == SqDist(index.xb[q], v)
    IN  dp < dq \/ (dp = dq /\ p < q)

\* index.search(v.reshape(1, -1), k): always k labels and k distances,
\* ascending by squared L2 distance; the places for which no vector is
\* stored hold the label -1 and the distance FLT_MAX. Labels are 0-based.
faiss_search(index, v, k) ==
    IF Len(v) # index.d
    THEN [raised |-> "AssertionError", labels |-> <<>>, distances |-> <<>>]
    ELSE
        LET n == Len(index.xb)
            at(r) == CHOOSE p \in 1..n :
                        Cardinality({q \in 1..n : Closer(index, v, q, p)}) = r - 1
        IN  [raised |-> "",
             labels |-> [r \in 1..k |-> IF r <= n THEN at(r) - 1 ELSE -1],
             distances |-> [r \in 1..k |->
                              IF r <= n THEN SqDist(index.xb[at(r)], v) ELSE FLT_MAX]]

(***************************************************************************)
(* FAISSVectorStore                                                        *)
(***************************************************************************)
\* self.vector_store = None
NoStore == [init |-> FALSE, dimension |-> 0, index |-> IndexFlatL2(0), chunks |-> <<>>]

\* FAISSVectorStore.__init__
FAISSVectorStore(dimension) ==
    [init |-> TRUE, dimension |-> dimension, index |-> IndexFlatL2(dimension),
     chunks |-> <<>>]

\* add_embeddings with the two statements swapped: chunks.extend, then index.add
add_embeddings_chunks_first(store, embeddings, chunks) ==
    LET added == faiss_add(store.index, embeddings)
        extended == [store EXCEPT !.chunks = @ \o chunks]
    IN  IF added.raised # ""
        THEN [raised |-> added.raised, store |-> extended]
        ELSE [raised |-> "", store |-> [extended EXCEPT !.index = added.index]]

\* FAISSVectorStore.add_embeddings: index.add, then chunks.extend
add_embeddings(store, embeddings, chunks) ==
    LET added == faiss_add(store.index, embeddings)
    IN  IF added.raised # ""
        THEN [raised |-> added.raised, store |-> store]
        ELSE [raised |-> "",
              store |-> [store EXCEPT !.index = added.index, !.chunks = @ \o chunks]]

\* the loop of FAISSVectorStore.search over zip(indices[0], distances[0]):
\* the results for the first r places. chunks[idx] with a negative idx
\* counts from the end of the list and raises IndexError on an empty list.
RECURSIVE SearchLoop(_, _, _, _)
SearchLoop(chunks, labels, distances, r) ==
    IF r = 0 THEN [raised |-> "", results |-> <<>>]
    ELSE
        LET before == SearchLoop(chunks, labels, distances, r - 1)
            idx == labels[r]
        IN  IF before.raised # "" THEN before
            ELSE IF ~(idx < Len(chunks)) THEN before
            ELSE IF idx < 0 /\ Len(chunks) + idx < 0
            THEN [raised |-> "IndexError", results |-> <<>>]
            ELSE LET pos == IF idx < 0 THEN Len(chunks) + idx ELSE idx
                 IN  [raised |-> "",
                      results |-> Append(before.results,
                                         [chunk |-> chunks[pos + 1],
                                          position |-> pos,
                                          distance |-> distances[r]])]

\* FAISSVectorStore.search
search(store, query_embedding, k) ==
    LET found == faiss_search(store.index, query_embedding, k)
    IN  IF found.raised # ""
        THEN [raised |-> found.raised, results |-> <<>>]
        ELSE SearchLoop(store.chunks, found.labels, found.distances, k)

(***************************************************************************)
(* The rag_index directory                                                 *)
(***************************************************************************)
NoFile == [present |-> FALSE]

\* no rag_index directory
NoDisk == [dir |-> FALSE, faiss |-> NoFile, chunks |-> NoFile, metadata |-> NoFile]

\* the points at which save_index can be interrupted by an I/O error:
\* in faiss.write_index, in opening chunks.pkl, in opening metadata.json
SaveFailures == {"", "faiss.index", "chunks.pkl", "metadata.json"}

(***************************************************************************)
(* RAGSystem                                                               *)
(***************************************************************************)
\* RAGSystem.__init__; d is the dimension of the vectors the configured
\* embedding deployment produces
RAGSystem(d) == [embedding_dim |-> d, vector_store |-> NoStore, documents_processed |-> 0]

\* the chunks process_document makes of each file: chunk_text(text, metadata)
\* with metadata = {'source': basename, 'path': file_path}
document_chunks ==
    [name \in DocNames |->
        chunk_text(documents[name], [source |-> name, path |-> name])]

\* the texts of the chunks of a file, as process_document passes them to
\* generate_embeddings_batch
chunk_texts_of(file_path) ==
    [i \in 1..Len(document_chunks[file_path]) |-> document_chunks[file_path][i].text]

\* process_document with documents_processed incremented before the
\* embeddings are generated
process_document_counting_first(rag, file_path, fail_at) ==
    LET counted == [rag EXCEPT !.documents_processed = @ + 1]
        chunks == document_chunks[file_path]
        emb == generate_embeddings_batch(chunk_texts_of(file_path), rag.embedding_dim,
                                         fail_at)
        embeddings == emb.value
        store == IF rag.vector_store.init THEN rag.vector_store
                 ELSE FAISSVectorStore(embeddings.d)
        added == add_embeddings(store, embeddings, chunks)
    IN  IF emb.raised # ""
        THEN [raised |-> emb.raised, rag |-> counted, value |-> 0]
        ELSE IF ~rag.vector_store.init /\ embeddings.ndim < 2
        THEN [raised |-> "IndexError", rag |-> counted, value |-> 0]
        ELSE IF added.raised # ""
        THEN [raised |-> added.raised,
              rag |-> [counted EXCEPT !.vector_store = added.store],
              value |-> 0]
        ELSE [raised |-> "",
              rag |-> [counted EXCEPT !.vector_store = added.store],
              value |-> Len(chunks)]

\* RAGSystem.process_document
process_document(rag, file_path, fail_at) ==
    LET chunks == document_chunks[file_path]
        chunk_texts == [i \in 1..Len(chunks) |-> chunks[i].text]
        emb == generate_embeddings_batch(chunk_texts, rag.embedding_dim, fail_at)
        embeddings == emb.value
        store == IF rag.vector_store.init THEN rag.vector_store
                 ELSE FAISSVectorStore(embeddings.d)
        added == add_embeddings(store, embeddings, chunks)
    IN  IF emb.raised # ""
        THEN [raised |-> emb.raised, rag |-> rag, value |-> 0]
        ELSE IF ~rag.vector_store.init /\ embeddings.ndim < 2
        THEN [raised |-> "IndexError", rag |-> rag, value |-> 0]
        ELSE IF added.raised # ""
        THEN [raised |-> added.raised,
              rag |-> [rag EXCEPT !.vector_store = added.store],
              value |-> 0]
        ELSE [raised |-> "",
              rag |-> [rag EXCEPT !.vector_store = added.store,
                                  !.documents_processed = @ + 1],
              value |-> Len(chunks)]

\* distance / (1 + distance), a score that grows with the distance
relevance_score_of_distance(distance) == <<distance, 1 + distance>>

\* 1 / (1 + distance) as the fraction <<numerator, denominator>>
relevance_score(distance) == <<1, 1 + distance>>

\* RAGSystem.retrieve; embed_fails: the embeddings.create call raises
retrieve(rag, query, k, embed_fails) ==
    LET query_embedding == Embed(query, rag.embedding_dim)
        found == search(rag.vector_store, query_embedding, k)
    IN  IF embed_fails
        THEN [raised |-> "EmbeddingServiceError", value |-> <<>>]
        ELSE IF ~rag.vector_store.init
        THEN [raised |-> "AttributeError", value |-> <<>>]
        ELSE IF found.raised # ""
        THEN [raised |-> found.raised, value |-> <<>>]
        ELSE [raised |-> "",
              value |-> [i \in 1..Len(found.results) |->
                           [text |-> found.results[i].chunk.text,
                            source |-> found.results[i].chunk.metadata.source,
                            position |-> found.results[i].position,
                            relevance_score |->
                                relevance_score(found.results[i].distance)]]]

\* FAISSVectorStore.save, interrupted at fail ("" for a complete save)
store_save(store, d, fail) ==
    IF fail = "faiss.index" THEN [raised |-> "OSError", disk |-> d]
    ELSE IF fail = "chunks.pkl"
    THEN [raised |-> "OSError",
          disk |-> [d EXCEPT !.faiss = [present |-> TRUE, index |-> store.index]]]
    ELSE [raised |-> "",
          disk |-> [d EXCEPT !.faiss = [present |-> TRUE, index |-> store.index],
                             !.chunks = [present |-> TRUE, chunks |-> store.chunks]]]

\* RAGSystem.save_index
save_index(rag, d, fail) ==
    LET made == [d EXCEPT !.dir = TRUE]
        written == store_save(rag.vector_store, made, fail)
    IN  IF ~rag.vector_store.init
        THEN [raised |-> "AttributeError", disk |-> made]
        ELSE IF written.raised # "" THEN written
        ELSE IF fail = "metadata.json"
        THEN [raised |-> "OSError", disk |-> written.disk]
        ELSE [raised |-> "",
              disk |-> [written.disk EXCEPT !.metadata =
                          [present |-> TRUE,
                           documents_processed |-> rag.documents_processed,
                           total_chunks |-> Len(rag.vector_store.chunks)]]]

\* FAISSVectorStore.load
store_load(store, d) ==
    IF ~d.faiss.present THEN [raised |-> "RuntimeError", store |-> store]
    ELSE IF ~d.chunks.present
    THEN [raised |-> "FileNotFoundError",
          store |-> [store EXCEPT !.index = d.faiss.index]]
    ELSE [raised |-> "",
          store |-> [store EXCEPT !.index = d.faiss.index,
                                  !.chunks = d.chunks.chunks]]

\* the branch of load_index taken when self.vector_store is None
load_fresh(d) ==
    IF ~d.faiss.present THEN [raised |-> "RuntimeError", store |-> NoStore]
    ELSE LET created == [FAISSVectorStore(d.faiss.index.d) EXCEPT
                            !.index = d.faiss.index]
         IN  IF ~d.chunks.present
             THEN [raised |-> "FileNotFoundError", store |-> created]
             ELSE [raised |-> "",
                   store |-> [created EXCEPT !.chunks = d.chunks.chunks]]

\* RAGSystem.load_index
load_index(rag, d) ==
    LET loaded == IF rag.vector_store.init THEN store_load(rag.vector_store, d)
                  ELSE load_fresh(d)
        with_store == [rag EXCEPT !.vector_store = loaded.store]
    IN  IF loaded.raised # ""
        THEN [raised |-> loaded.raised, rag |-> with_store]
        ELSE IF ~d.metadata.present
        THEN [raised |-> "FileNotFoundError", rag |-> with_store]
        ELSE [raised |-> "",
              rag |-> [with_store EXCEPT !.documents_processed =
                                            d.metadata.documents_processed]]

\* directory_path.glob('*.txt'): the file names of a documents directory in
\* the order glob yields them
Listings == {<<"short.txt">>, <<"short.txt", "empty.txt", "long.txt">>}

\* after_file that goes on with the next file when process_document raises
\* and keeps the results of the files ingested
after_file_continuing(before, out, name) ==
    IF out.raised # ""
    THEN [raised |-> "", rag |-> out.rag, value |-> before.value]
    ELSE [raised |-> "", rag |-> out.rag,
          value |-> Append(before.value, [name |-> name, chunk_count |-> out.value])]

\* one iteration of the loop of process_documents_from_directory: before is
\* the state the iteration starts from, out what process_document does for
\* the file name. An exception of process_document leaves the loop and the
\* function, so no iteration follows one that raised.
after_file(before, out, name) ==
    IF before.raised # "" THEN before
    ELSE IF out.raised # ""
    THEN [raised |-> out.raised, rag |-> out.rag, value |-> <<>>]
    ELSE [raised |-> "", rag |-> out.rag,
          value |-> Append(before.value, [name |-> name, chunk_count |-> out.value])]

\* RAGSystem.process_documents_from_directory on a directory that lists
\* files; fail_file is the number of the file whose first embeddings.create
\* call raises (0: every call returns). after[i] is the state after the
\* i-th file; value is the dict results as the sequence of its items.
process_documents_from_directory(rag, files, fail_file) ==
    LET after[i \in 0..Len(files)] ==
            IF i = 0 THEN [raised |-> "", rag |-> rag, value |-> <<>>]
            ELSE after_file(after[i - 1],
                            process_document(after[i - 1].rag, files[i],
                                             IF fail_file = i THEN 1 ELSE 0),
                            files[i])
    IN  after[Len(files)]

\* rag.save_index(index_dir) after rag.process_documents_from_directory, as
\* build_rag_index and rebuild_index call them: processed is what the
\* ingestion did, and its exception skips the save
save_processed(processed, dir, fail) ==
    LET written == save_index(processed.rag, dir, fail)
    IN  IF processed.raised # ""
        THEN [raised |-> processed.raised, rag |-> processed.rag, disk |-> dir]
        ELSE [raised |-> written.raised, rag |-> processed.rag, disk |-> written.disk]

\* build_rag_index: a new RAGSystem of a deployment of dimension d ingests
\* the directory and saves the index; rag is the object the function holds
\* when it returns or raises
build_rag_index(d, files, dir, fail_file, fail) ==
    save_processed(process_documents_from_directory(RAGSystem(d), files, fail_file),
                   dir, fail)

(***************************************************************************)
(* The build script and library use of one RAGSystem (rag_system.py)       *)
(***************************************************************************)
NoCall == [op |-> "", name |-> "", files |-> <<>>, fail_at |-> 0, query |-> <<>>,
           k |-> 0, fail |-> "", raised |-> "", value |-> <<>>]

\* dimension: the dimension attribute of the store a complete save_index
\* wrote the files of the directory from
NoSaved == [present |-> FALSE, dimension |-> 0]

\* no /ask request is being handled
NoReq == [pc |-> "AwaitingUserInput", session_id |-> "", base |-> 0, calls |-> <<>>,
          i |-> 0, lm_calls |-> 0, retrievals |-> 0, tool_results |-> 0]

\* no response yet. seq counts the /ask requests answered so far. The other
\* fields after detail describe the processing of the request the response
\* answers: the length of the session history before and after it, the
\* number of tool calls in the first model response, and the numbers of
\* language-model calls made, of retrieve calls made and of tool messages
\* appended.
NoResp == [endpoint |-> "", seq |-> 0, status |-> 0, session_id |-> "", answer |-> <<>>,
           source |-> "", detail |-> "", base |-> 0, length |-> 0, n_calls |-> 0,
           lm_calls |-> 0, retrievals |-> 0, tool_results |-> 0]

NoSessions == [s \in {} |-> 0]

\* no DocumentChunker constructed, chunk_text not called
NoChunker == [init |-> FALSE, chunk_size |-> 0, overlap |-> 0, called |-> FALSE,
              text |-> <<>>, raised |-> "", chunks |-> <<>>]

InitRag ==
    /\ rags \in {<<RAGSystem(d)>> : d \in Dims}
    /\ rag_system = 0
    /\ disk = NoDisk
    /\ sessions = NoSessions
    /\ req = NoReq
    /\ resp = NoResp
    /\ last = NoCall
    /\ saved = NoSaved
    /\ chunker = NoChunker

api_unchanged == UNCHANGED <<rag_system, sessions, req, resp, chunker>>

\* rag = RAGSystem(...), as in build_rag_index: the name is bound to a new
\* object configured with a deployment of dimension d
RagNew(d) ==
    /\ rags' = <<RAGSystem(d)>>
    /\ last' = [NoCall EXCEPT !.op = "RAGSystem"]
    /\ UNCHANGED <<disk, saved>>
    /\ api_unchanged

\* the number of embeddings.create calls process_document makes for a file
batch_count == [name \in DocNames |-> Len(Batches(chunk_texts_of(name)))]

\* fail_at: the batch whose embeddings.create call raises, 0 for none
RagProcessDocument(name, fail_at) ==
    LET out == process_document(rags[1], name, fail_at)
    IN  /\ fail_at <= batch_count[name]
        /\ Len(out.rag.vector_store.index.xb) <= MaxEntries
        /\ Len(out.rag.vector_store.chunks) <= MaxEntries
        /\ out.rag.documents_processed <= MaxDocs
        /\ rags' = <<out.rag>>
        /\ last' = [NoCall EXCEPT !.op = "process_document", !.name = name,
                                  !.fail_at = fail_at,
                                  !.raised = out.raised, !.value = out.value]
        /\ UNCHANGED <<disk, saved>>
        /\ api_unchanged

\* the RAGSystem stays within the bounds of the model
WithinBounds(rag) ==
    /\ Len(rag.vector_store.index.xb) <= MaxEntries
    /\ Len(rag.vector_store.chunks) <= MaxEntries
    /\ rag.documents_processed <= MaxDocs

\* the effect of a process_documents_from_directory call that did out
DirectoryProcessed(out, files, fail_file) ==
    /\ WithinBounds(out.rag)
    /\ rags' = <<out.rag>>
    /\ last' = [NoCall EXCEPT !.op = "process_documents_from_directory",
                              !.files = files, !.fail_at = fail_file,
                              !.raised = out.raised, !.value = out.value]
    /\ UNCHANGED <<disk, saved>>
    /\ api_unchanged

\* rag.process_documents_from_directory(directory) on a directory that lists
\* files; fail_file as in process_documents_from_directory
RagProcessDirectory(files, fail_file) ==
    /\ fail_file <= Len(files)
    /\ DirectoryProcessed(process_documents_from_directory(rags[1], files, fail_file),
                          files, fail_file)

\* the effect of a build_rag_index call that did out
IndexBuilt(out, files, fail_file) ==
    /\ WithinBounds(out.rag)
    /\ rags' = <<out.rag>>
    /\ disk' = out.disk
    /\ last' = [NoCall EXCEPT !.op = "build_rag_index", !.files = files,
                              !.fail_at = fail_file, !.raised = out.raised]
    /\ saved' = IF out.raised = ""
                THEN [present |-> TRUE, dimension |-> out.rag.vector_store.dimension]
                ELSE IF out.disk = disk THEN saved
                ELSE NoSaved
    /\ api_unchanged

\* RagBuildIndex that ingests into the RAGSystem at hand instead of a new
\* one
RagBuildIndex_onto_current(files, fail_file) ==
    /\ fail_file <= Len(files)
    /\ IndexBuilt(save_processed(
                      process_documents_from_directory(rags[1], files, fail_file),
                      disk, ""),
                  files, fail_file)

\* rag = build_rag_index(documents_dir, index_dir) with the deployment of the
\* RAGSystem at hand
RagBuildIndex(files, fail_file) ==
    /\ fail_file <= Len(files)
    /\ IndexBuilt(build_rag_index(rags[1].embedding_dim, files, disk, fail_file, ""),
                  files, fail_file)

\* RagRetrieve with a retrieve that removes the first entry of the store it
\* searched
RagRetrieve_consuming(query, k, embed_fails) ==
    LET out == retrieve(rags[1], query, k, embed_fails)
        store == rags[1].vector_store
    IN  /\ last' = [NoCall EXCEPT !.op = "retrieve", !.query = query, !.k = k,
                                  !.raised = out.raised, !.value = out.value]
        /\ rags' = IF store.init /\ Len(store.chunks) > 0 /\ Len(store.index.xb) > 0
                   THEN <<[rags[1] EXCEPT !.vector_store.chunks = Tail(@),
                                          !.vector_store.index.xb = Tail(@)]>>
                   ELSE rags
        /\ UNCHANGED <<disk, saved>>
        /\ api_unchanged

RagRetrieve(query, k, embed_fails) ==
    LET out == retrieve(rags[1], query, k, embed_fails)
    IN  /\ last' = [NoCall EXCEPT !.op = "retrieve", !.query = query, !.k = k,
                                  !.raised = out.raised, !.value = out.value]
        /\ UNCHANGED <<rags, disk, saved>>
        /\ api_unchanged

RagSaveIndex(fail) ==
    LET out == save_index(rags[1], disk, fail)
    IN  /\ disk' = out.disk
        /\ last' = [NoCall EXCEPT !.op = "save_index", !.fail = fail,
                                  !.raised = out.raised]
        /\ saved' = IF out.raised = ""
                    THEN [present |-> TRUE, dimension |-> rags[1].vector_store.dimension]
                    ELSE IF out.disk = disk THEN saved
                    ELSE NoSaved
        /\ UNCHANGED rags
        /\ api_unchanged

RagLoadIndex ==
    LET out == load_index(rags[1], disk)
    IN  /\ rags' = <<out.rag>>
        /\ last' = [NoCall EXCEPT !.op = "load_index", !.raised = out.raised]
        /\ UNCHANGED <<disk, saved>>
        /\ api_unchanged

NextRag ==
    \/ \E d \in Dims : RagNew(d)
    \/ \E name \in DocNames, fail_at \in 0..2 : RagProcessDocument(name, fail_at)
    \/ \E query \in Queries, k \in 1..MaxK, embed_fails \in BOOLEAN :
          RagRetrieve(query, k, embed_fails)
    \/ RagSaveIndex("")
    \/ RagLoadIndex
    \/ \E files \in Listings, fail_file \in 0..1 : RagProcessDirectory(files, fail_file)
    \/ \E files \in Listings : RagBuildIndex(files, 0)

\* every call returns unless the program itself raises
SpecRag == InitRag /\ [][NextRag]_vars

NextRagIO ==
    \/ NextRag
    \/ \E fail \in SaveFailures \ {""} : RagSaveIndex(fail)

\* as SpecRag, and a write of save_index can fail with an I/O error
SpecRagIO == InitRag /\ [][NextRagIO]_vars

(***************************************************************************)
(* Library use of a DocumentChunker (rag_system.py)                        *)
(***************************************************************************)
\* largest chunk_size and overlap a chunker is constructed with, besides
\* the 500 and 50 of RAGSystem, and largest number of words of a text
MaxChunkSize == 3
MaxWords == 6

\* the configurations a DocumentChunker is constructed with
ChunkerConfigs ==
    {DocumentChunker(cs, ov) : cs \in 1..MaxChunkSize, ov \in 0..MaxChunkSize}
    \cup {DocumentChunker(chunk_size, overlap)}

\* the texts chunk_text is called with: n words separated by single spaces,
\* a text with leading, trailing and repeated whitespace, and a text of
\* 1200 words
ChunkerTexts ==
    {TextOfWords(n) : n \in 0..MaxWords}
    \cup {<<SPACE, 1, SPACE, SPACE, 2, 3, SPACE>>, TextOfWords(1200)}

InitChunker ==
    /\ rags = <<>>
    /\ rag_system = 0
    /\ disk = NoDisk
    /\ sessions = NoSessions
    /\ req = NoReq
    /\ resp = NoResp
    /\ last = NoCall
    /\ saved = NoSaved
    /\ chunker = NoChunker

\* chunker = DocumentChunker(chunk_size, overlap)
ChunkerNew(c) ==
    /\ chunker' = [NoChunker EXCEPT !.init = TRUE, !.chunk_size = c.chunk_size,
                                    !.overlap = c.overlap]
    /\ UNCHANGED <<rags, rag_system, disk, sessions, req, resp, last, saved>>

\* chunker.chunk_text(text, metadata)
ChunkText(text) ==
    LET out == chunk_text_call(chunker, text, [source |-> "a.txt"])
    IN  /\ chunker.init
        /\ chunker' = [chunker EXCEPT !.called = TRUE, !.text = text,
                                      !.raised = out.raised, !.chunks = out.value]
        /\ UNCHANGED <<rags, rag_system, disk, sessions, req, resp, last, saved>>

NextChunker ==
    \/ \E c \in ChunkerConfigs : ChunkerNew(c)
    \/ \E text \in ChunkerTexts : ChunkText(text)

SpecChunker == InitChunker /\ [][NextChunker]_vars

(***************************************************************************)
(* RAGAgent and the /ask endpoint (api.py)                                 *)
(***************************************************************************)
\* bounds of the service model: the /ask requests answered, the tool calls
\* of one model response, the dimension of the service's deployment
MaxRequests == 2
MaxCalls == 2
ServiceDim == 1

\* RAGAgent.search_documents: self.rag_system.retrieve(query, k=3)
search_k == 3
\* result['text'][:300]
preview_len == 300

SessionIds == {"s1", "s2"}

\* the user's question and the text of a model answer
UserQuery == <<5>>
AnswerText == <<8>>
\* message.content of a response that carries tool calls (None)
PyNone == <<>>

\* tool_call.function.arguments, a JSON document: valid is FALSE when
\* json.loads raises, has_query is FALSE when args["query"] raises
ArgsQuery(q) == [valid |-> TRUE, has_query |-> TRUE, query |-> q]
ArgsNoQuery == [valid |-> TRUE, has_query |-> FALSE, query |-> <<>>]
ArgsNotJson == [valid |-> FALSE, has_query |-> FALSE, query |-> <<>>]

\* the functions a model response can name with their arguments
Functions ==
    {[name |-> "search_documents", arguments |-> a] :
        a \in {ArgsQuery(UserQuery), ArgsNoQuery, ArgsNotJson}}
    \cup {[name |-> "other_tool", arguments |-> ArgsQuery(UserQuery)]}

CallIds == [i \in 1..(MaxCalls + 1) |-> i]

\* a search_documents call whose arguments json.loads and ["query"] accept
WellFormedSearch(f) ==
    f.name = "search_documents" /\ f.arguments.valid /\ f.arguments.has_query

\* message.tool_calls of n calls; the i-th call has the id CallIds[i]. The
\* responses considered hold well-formed search_documents calls, except
\* that the last call of a response may name any function with any
\* arguments.
ToolCallLists(n) ==
    {[i \in 1..n |-> [id |-> CallIds[i], type |-> "function", function |-> f[i]]] :
        f \in {g \in [1..n -> Functions] :
                  \A i \in 1..(n - 1) : WellFormedSearch(g[i])}}

\* what chat.completions.create returns: message.content, message.tool_calls
LMAnswers == {[content |-> AnswerText, tool_calls |-> <<>>]}

LMToolCalls ==
    {[content |-> PyNone, tool_calls |-> calls] :
        calls \in UNION {ToolCallLists(n) : n \in 1..MaxCalls}}

\* the messages of conversation_history
UserMessage(query) == [role |-> "user", content |-> query]

AssistantMessage(content) == [role |-> "assistant", content |-> content]

ToolCallsMessage(message) ==
    [role |-> "assistant", content |-> message.content,
     tool_calls |-> [i \in 1..Len(message.tool_calls) |->
                       [id |-> message.tool_calls[i].id,
                        type |-> message.tool_calls[i].type,
                        function |-> [name |-> message.tool_calls[i].function.name,
                                      arguments |->
                                          message.tool_calls[i].function.arguments]]]]

ToolMessage(tool_call, result) ==
    [role |-> "tool", tool_call_id |-> tool_call.id, name |-> "search_documents",
     content |-> result]

\* the return values of search_documents: the fixed sentence, or the
\* numbered list "i. [Source: source]\ntext[:300]..." of the results
NoRelevantDocuments == [sentence |-> "No relevant documents found.", items |-> <<>>]

Formatted(results) ==
    [sentence |-> "",
     items |-> [i \in 1..Len(results) |->
                  [number |-> i, source |-> results[i].source,
                   text |-> Slice(results[i].text, 0, preview_len)]]]

\* RAGAgent.search_documents
search_documents(rag, query, embed_fails) ==
    LET found == retrieve(rag, query, search_k, embed_fails)
    IN  IF found.raised # "" THEN [raised |-> found.raised, value |-> NoRelevantDocuments]
        ELSE IF Len(found.value) = 0 THEN [raised |-> "", value |-> NoRelevantDocuments]
        ELSE [raised |-> "", value |-> Formatted(found.value)]

\* get_rag_system: the heap, the global and the exception after the call; d
\* is the dimension of the deployment AZURE_OPENAI_EMBEDDING_DEPLOYMENT names
get_rag_system(heap, global, dir, d) ==
    IF global # 0 THEN [raised |-> "", rags |-> heap, rag_system |-> global]
    ELSE LET ref == Len(heap) + 1
             loaded == load_index(RAGSystem(d), dir)
         IN  IF ~dir.dir
             THEN [raised |-> "", rags |-> Append(heap, RAGSystem(d)), rag_system |-> ref]
             ELSE [raised |-> loaded.raised, rags |-> Append(heap, loaded.rag),
                   rag_system |-> ref]

\* the heap, the global, the index directory and the response when
\* rebuild_index ends: built is what ingestion and save did to the new
\* RAGSystem, which the global was bound to before they started
rebuilt(heap, built) ==
    [status |-> IF built.raised = "" THEN 200 ELSE 500, detail |-> built.raised,
     rags |-> Append(heap, built.rag), rag_system |-> Len(heap) + 1,
     disk |-> built.disk]

\* the body of rebuild_index: the global is bound to a new RAGSystem, which
\* then ingests the documents directory and saves the index; fail_file as
\* in process_documents_from_directory, fail as in save_index
rebuild_index(heap, dir, d, files, fail_file, fail) ==
    rebuilt(heap,
            save_processed(
                process_documents_from_directory(RAGSystem(d), files, fail_file),
                dir, fail))

\* the scan of ask over agent.conversation_history that determines source
Source(history) ==
    IF \E i \in 1..Len(history) : history[i].role = "tool" THEN "documents" ELSE "llm"

history_of(sid) == sessions[sid].agent.conversation_history

\* Appended with one conversation_history list shared by all agents
Appended_to_all(sid, message) ==
    [s \in DOMAIN sessions |->
        [sessions[s] EXCEPT !.agent.conversation_history = Append(@, message)]]

\* self.conversation_history.append(message) on the agent of session sid
Appended(sid, message) ==
    [sessions EXCEPT ![sid].agent.conversation_history = Append(@, message)]

\* the response of ask to the request in flight: 200 with the answer, or
\* the HTTPException(500) of its except clause
Answered(sid, answer, history, r) ==
    [NoResp EXCEPT !.endpoint = "ask", !.seq = resp.seq + 1, !.status = 200,
                   !.session_id = sid, !.answer = answer, !.source = Source(history),
                   !.base = r.base, !.length = Len(history),
                   !.n_calls = Len(r.calls), !.lm_calls = r.lm_calls,
                   !.retrievals = r.retrievals, !.tool_results = r.tool_results]

Failed(sid, detail, history, r) ==
    [NoResp EXCEPT !.endpoint = "ask", !.seq = resp.seq + 1, !.status = 500,
                   !.session_id = sid, !.detail = detail,
                   !.base = r.base, !.length = Len(history),
                   !.n_calls = Len(r.calls), !.lm_calls = r.lm_calls,
                   !.retrievals = r.retrievals, !.tool_results = r.tool_results]

rag_unchanged == UNCHANGED <<disk, last, saved, chunker>>

\* Ask started while the handler of another request is suspended in its
\* processing, as if process_query awaited the language model
Ask_while_suspended(sid, query, d) ==
    LET got == get_rag_system(rags, rag_system, disk, d)
        agent == [conversation_history |-> <<>>, rag_system |-> got.rag_system]
        created == IF sid \in DOMAIN sessions THEN sessions
                   ELSE [s \in DOMAIN sessions \cup {sid} |->
                           IF s = sid THEN [agent |-> agent] ELSE sessions[s]]
        base == Len(created[sid].agent.conversation_history)
    IN  /\ resp.seq < MaxRequests
        /\ got.raised = ""
        /\ rags' = got.rags
        /\ rag_system' = got.rag_system
        /\ sessions' = [created EXCEPT ![sid].agent.conversation_history =
                                           Append(@, UserMessage(query))]
        /\ req' = [NoReq EXCEPT !.pc = "ModelDeciding", !.session_id = sid,
                                !.base = base]
        /\ UNCHANGED resp
        /\ rag_unchanged

\* POST /ask up to the first chat.completions.create call: the session is
\* looked up or created (RAGAgent.__init__ calls get_rag_system) and
\* process_query appends the user message
Ask(sid, query, d) ==
    LET got == get_rag_system(rags, rag_system, disk, d)
        agent == [conversation_history |-> <<>>, rag_system |-> got.rag_system]
        created == IF sid \in DOMAIN sessions THEN sessions
                   ELSE [s \in DOMAIN sessions \cup {sid} |->
                           IF s = sid THEN [agent |-> agent] ELSE sessions[s]]
        base == Len(created[sid].agent.conversation_history)
    IN  /\ req.pc = "AwaitingUserInput"
        /\ resp.seq < MaxRequests
        /\ IF sid \in DOMAIN sessions
           THEN /\ sessions' = Appended(sid, UserMessage(query))
                /\ req' = [NoReq EXCEPT !.pc = "ModelDeciding", !.session_id = sid,
                                        !.base = base]
                /\ UNCHANGED <<rags, rag_system, resp>>
           ELSE /\ rags' = got.rags
                /\ rag_system' = got.rag_system
                /\ IF got.raised # ""
                   THEN /\ resp' = Failed(sid, got.raised, <<>>, NoReq)
                        /\ UNCHANGED <<sessions, req>>
                   ELSE /\ sessions' = [created EXCEPT
                               ![sid].agent.conversation_history =
                                   Append(@, UserMessage(query))]
                        /\ req' = [NoReq EXCEPT !.pc = "ModelDeciding",
                                                !.session_id = sid, !.base = base]
                        /\ UNCHANGED resp
        /\ rag_unchanged

\* the first chat.completions.create call raises
ModelDecidingFails ==
    /\ req.pc = "ModelDeciding"
    /\ resp' = Failed(req.session_id, "LanguageModelError",
                      history_of(req.session_id), [req EXCEPT !.lm_calls = @ + 1])
    /\ req' = NoReq
    /\ UNCHANGED <<rags, rag_system, sessions>>
    /\ rag_unchanged

\* DirectAnswer with the assistant message appended in the branch and once
\* more after it
DirectAnswer_appended_twice(message) ==
    LET sid == req.session_id
        after == Appended(sid, AssistantMessage(message.content))
        twice == [after EXCEPT ![sid].agent.conversation_history =
                                   Append(@, AssistantMessage(message.content))]
    IN  /\ req.pc = "ModelDeciding"
        /\ sessions' = twice
        /\ resp' = Answered(sid, message.content,
                            twice[sid].agent.conversation_history,
                            [req EXCEPT !.lm_calls = @ + 1])
        /\ req' = NoReq
        /\ UNCHANGED <<rags, rag_system>>
        /\ rag_unchanged

\* the first call returns a message without tool calls: the direct answer
DirectAnswer(message) ==
    LET sid == req.session_id
        after == Appended(sid, AssistantMessage(message.content))
    IN  /\ req.pc = "ModelDeciding"
        /\ sessions' = after
        /\ resp' = Answered(sid, message.content,
                            after[sid].agent.conversation_history,
                            [req EXCEPT !.lm_calls = @ + 1])
        /\ req' = NoReq
        /\ UNCHANGED <<rags, rag_system>>
        /\ rag_unchanged

\* the first call returns a message with tool calls: the assistant message
\* that lists them is appended
ToolCallsRequested(message) ==
    /\ req.pc = "ModelDeciding"
    /\ sessions' = Appended(req.session_id, ToolCallsMessage(message))
    /\ req' = [req EXCEPT !.pc = "ToolExecuting", !.calls = message.tool_calls,
                          !.i = 1, !.lm_calls = @ + 1]
    /\ UNCHANGED <<rags, rag_system, resp>>
    /\ rag_unchanged

\* one iteration of the loop over message.tool_calls
ExecuteTool(embed_fails) ==
    LET sid == req.session_id
        tool_call == req.calls[req.i]
        args == tool_call.function.arguments
        rag == rags[sessions[sid].agent.rag_system]
        result == search_documents(rag, args.query, embed_fails)
        raised == IF ~args.valid THEN "JSONDecodeError"
                  ELSE IF ~args.has_query THEN "KeyError"
                  ELSE result.raised
    IN  /\ req.pc = "ToolExecuting"
        /\ req.i <= Len(req.calls)
        /\ IF tool_call.function.name # "search_documents"
           THEN /\ req' = [req EXCEPT !.i = @ + 1]
                /\ UNCHANGED <<sessions, resp>>
           ELSE IF raised # ""
           THEN /\ resp' = Failed(sid, raised, history_of(sid),
                                  [req EXCEPT !.retrievals =
                                      IF args.valid /\ args.has_query THEN @ + 1 ELSE @])
                /\ req' = NoReq
                /\ UNCHANGED sessions
           ELSE /\ sessions' = Appended(sid, ToolMessage(tool_call, result.value))
                /\ req' = [req EXCEPT !.i = @ + 1, !.retrievals = @ + 1,
                                      !.tool_results = @ + 1]
                /\ UNCHANGED resp
        /\ UNCHANGED <<rags, rag_system>>
        /\ rag_unchanged

\* the loop is over; the second chat.completions.create call, made without
\* tools, raises
ModelFinalizingFails ==
    /\ req.pc = "ToolExecuting"
    /\ req.i > Len(req.calls)
    /\ resp' = Failed(req.session_id, "LanguageModelError",
                      history_of(req.session_id), [req EXCEPT !.lm_calls = @ + 1])
    /\ req' = NoReq
    /\ UNCHANGED <<rags, rag_system, sessions>>
    /\ rag_unchanged

\* the second call returns: its text is appended and is the answer
FinalAnswer(message) ==
    LET sid == req.session_id
        after == Appended(sid, AssistantMessage(message.content))
    IN  /\ req.pc = "ToolExecuting"
        /\ req.i > Len(req.calls)
        /\ sessions' = after
        /\ resp' = Answered(sid, message.content,
                            after[sid].agent.conversation_history,
                            [req EXCEPT !.lm_calls = @ + 1])
        /\ req' = NoReq
        /\ UNCHANGED <<rags, rag_system>>
        /\ rag_unchanged

\* DeleteSession with sessions.clear() in place of del sessions[session_id]
DeleteSession_clearing(sid) ==
    /\ req.pc = "AwaitingUserInput"
    /\ IF sid \in DOMAIN sessions
       THEN /\ sessions' = NoSessions
            /\ resp' = [NoResp EXCEPT !.endpoint = "delete_session", !.seq = resp.seq,
                                      !.status = 200, !.session_id = sid]
       ELSE /\ resp' = [NoResp EXCEPT !.endpoint = "delete_session", !.seq = resp.seq,
                                      !.status = 404, !.session_id = sid]
            /\ UNCHANGED sessions
    /\ UNCHANGED <<rags, rag_system, req>>
    /\ rag_unchanged

\* DELETE /sessions/{session_id}
DeleteSession(sid) ==
    /\ req.pc = "AwaitingUserInput"
    /\ IF sid \in DOMAIN sessions
       THEN /\ sessions' = [s \in DOMAIN sessions \ {sid} |-> sessions[s]]
            /\ resp' = [NoResp EXCEPT !.endpoint = "delete_session", !.seq = resp.seq,
                                      !.status = 200, !.session_id = sid]
       ELSE /\ resp' = [NoResp EXCEPT !.endpoint = "delete_session", !.seq = resp.seq,
                                      !.status = 404, !.session_id = sid]
            /\ UNCHANGED sessions
    /\ UNCHANGED <<rags, rag_system, req>>
    /\ rag_unchanged

\* the index directory as build_rag_index leaves it after ingesting
\* short.txt with a deployment of dimension d
BuiltDisk(d) ==
    save_index(process_document(RAGSystem(d), "short.txt", 0).rag, NoDisk, "").disk

\* the index directory after a save_index of that RAGSystem that was
\* interrupted when it wrote chunks.pkl
InterruptedDisk(d) ==
    save_index(process_document(RAGSystem(d), "short.txt", 0).rag, NoDisk,
               "chunks.pkl").disk

Init ==
    /\ rags = <<>>
    /\ rag_system = 0
    /\ disk \in {NoDisk, BuiltDisk(ServiceDim), InterruptedDisk(ServiceDim)}
    /\ sessions = NoSessions
    /\ req = NoReq
    /\ resp = NoResp
    /\ last = NoCall
    /\ saved = NoSaved
    /\ chunker = NoChunker

Next ==
    \/ \E sid \in SessionIds : Ask(sid, UserQuery, ServiceDim)
    \/ ModelDecidingFails
    \/ \E message \in LMAnswers : DirectAnswer(message)
    \/ \E message \in LMToolCalls : ToolCallsRequested(message)
    \/ \E embed_fails \in BOOLEAN : ExecuteTool(embed_fails)
    \/ ModelFinalizingFails
    \/ \E message \in LMAnswers : FinalAnswer(message)
    \/ \E sid \in SessionIds : DeleteSession(sid)

Spec == Init /\ [][Next]_vars

(***************************************************************************)
(* The service with the /rebuild-index endpoint (api.py)                   *)
(***************************************************************************)
\* largest number of RAGSystem objects the service constructs
MaxSystems == 2

\* the listings of the directory "documents" when /rebuild-index runs
ServiceListings == {<<"short.txt">>, <<"short.txt", "empty.txt", "long.txt">>}

\* the effect of a rebuild_index handler that did out
IndexRebuilt(out) ==
    /\ rags' = out.rags
    /\ rag_system' = out.rag_system
    /\ disk' = out.disk
    /\ resp' = [NoResp EXCEPT !.endpoint = "rebuild_index", !.seq = resp.seq,
                              !.status = out.status, !.detail = out.detail]
    /\ UNCHANGED <<sessions, req, last, saved, chunker>>

\* POST /rebuild-index: the handler has no await, so it runs from its first
\* statement to its response between two other handlers
RebuildIndex(files, fail_file, fail) ==
    /\ req.pc = "AwaitingUserInput"
    /\ Len(rags) < MaxSystems
    /\ IndexRebuilt(rebuild_index(rags, disk, ServiceDim, files, fail_file, fail))

NextService ==
    \/ Next
    \/ \E files \in ServiceListings, fail_file \in 0..1, fail \in SaveFailures :
          RebuildIndex(files, fail_file, fail)

\* as Spec, and the index can be rebuilt while the service runs
SpecService == Init /\ [][NextService]_vars

(***************************************************************************)
(* Properties of the vector store and of persistence                       *)
(***************************************************************************)
the_store == rags[1].vector_store

entry_count == Len(the_store.index.xb)

Positions(results) == {results[i].position : i \in 1..Len(results)}

\* C5: a search that returns gives exactly min(k, entry_count) results, each
\* for a distinct stored position.
C5_SearchReturnsMinKDistinct ==
    (last.op = "retrieve" /\ last.raised = "") =>
        /\ Len(last.value) = Min(last.k, entry_count)
        /\ Cardinality(Positions(last.value)) = Len(last.value)

\* the call is a process_document of a document with at least one chunk on a
\* system whose deployment's dimension is not the dimension of its index
InsertsOtherDimension ==
    /\ last'.op = "process_document"
    /\ Len(document_chunks[last'.name]) > 0
    /\ the_store.init
    /\ rags[1].embedding_dim # the_store.index.d

\* C7: inserting vectors of a dimension other than the index's always fails
\* and changes neither the number of indexed vectors nor the number of
\* stored chunks.
C7_DimensionMismatchRejected ==
    [][InsertsOtherDimension =>
          /\ last'.raised # ""
          /\ Len(the_store.index.xb)' = Len(the_store.index.xb)
          /\ Len(the_store.chunks)' = Len(the_store.chunks)]_vars

\* an insertion into a non-empty index was refused for its dimension
C7_Witness ==
    /\ last.op = "process_document"
    /\ last.raised = "AssertionError"
    /\ rags[1].embedding_dim # the_store.index.d
    /\ entry_count > 0
    /\ Len(the_store.chunks) = entry_count

\* C8: after a complete save_index, a load_index that returns leaves a store
\* with the dimension, the entries and the documents_processed of save time.
C8_SaveLoadRoundTrip ==
    (last.op = "load_index" /\ last.raised = "" /\ saved.present) =>
        /\ the_store.dimension = saved.dimension
        /\ the_store.index = disk.faiss.index
        /\ the_store.chunks = disk.chunks.chunks
        /\ rags[1].documents_processed = disk.metadata.documents_processed

\* C9: the index holds as many vectors as the store holds chunks, and the
\* total_chunks a save_index writes is the number of entries of the index
\* saved with it.
C9_IndexCountIsChunkCount ==
    /\ the_store.init => entry_count = Len(the_store.chunks)
    /\ (last.op = "save_index" /\ last.raised = "") =>
           disk.metadata.total_chunks = Len(disk.faiss.index.xb)

\* index, chunks and manifest are all present and total_chunks is the number
\* of serialized entries
SnapshotConsistent(d) ==
    /\ d.faiss.present
    /\ d.chunks.present
    /\ d.metadata.present
    /\ d.metadata.total_chunks = Len(d.faiss.index.xb)

\* C10: load_index of a directory that is not a consistent snapshot fails
\* and leaves the index, the chunks and documents_processed as they were.
C10_LoadRefusesInconsistentSnapshot ==
    [][(last'.op = "load_index" /\ ~SnapshotConsistent(disk)) =>
          (last'.raised # "" /\ rags' = rags)]_vars

\* C11: load_index on a system whose store is initialized with dimension d
\* fails when the index on disk has another dimension, and no load_index
\* leaves a store whose dimension attribute differs from the dimension of
\* the index it holds.
C11_LoadRefusesOtherDimension ==
    [][last'.op = "load_index" =>
          /\ (/\ the_store.init
              /\ disk.faiss.present
              /\ disk.faiss.index.d # the_store.dimension) => last'.raised # ""
          /\ the_store'.init => the_store'.dimension = the_store'.index.d]_vars

\* the call is a process_document during which the embeddings.create call
\* for batch j raises
FailsAtBatch(j) ==
    /\ last'.op = "process_document"
    /\ last'.fail_at = j
    /\ j \in 1..batch_count[last'.name]

\* C12 as stated: when the embedding call fails for batch j, process_document
\* fails, the entries of the batches before j are in the index afterwards
\* and documents_processed is not incremented.
C12_BatchFailureKeepsEarlierBatches ==
    [][\A j \in 1..2 : FailsAtBatch(j) =>
          /\ last'.raised = "EmbeddingServiceError"
          /\ the_store'.index.xb =
                 the_store.index.xb
                 \o [i \in 1..((j - 1) * batch_size) |->
                       Embed(chunk_texts_of(last'.name)[i], rags[1].embedding_dim)]
          /\ rags'[1].documents_processed = rags[1].documents_processed]_vars

\* C12 as amended: when the embedding call fails for batch j, process_document
\* fails and leaves the system as it was: no entry of the document is
\* inserted and documents_processed is not incremented.
C12_BatchFailureInsertsNothing ==
    [][\A j \in 1..2 : FailsAtBatch(j) =>
          /\ last'.raised = "EmbeddingServiceError"
          /\ rags' = rags]_vars

\* the call for the second batch of a document failed after the call for
\* its first batch had returned
C12_Witness ==
    /\ last.op = "process_document"
    /\ last.fail_at = 2
    /\ batch_count[last.name] = 2
    /\ last.raised = "EmbeddingServiceError"

\* what a process_document call that returns does with the c chunks of its
\* document: it returns c, appends their c entries after the existing ones
\* in chunk order and increments documents_processed by 1
AppendsItsChunks ==
    LET chunks == document_chunks[last'.name]
        texts == chunk_texts_of(last'.name)
    IN  /\ last'.raised = ""
        /\ last'.value = Len(chunks)
        /\ the_store'.chunks = the_store.chunks \o chunks
        /\ the_store'.index.xb =
               the_store.index.xb
               \o [i \in 1..Len(chunks) |-> Embed(texts[i], rags[1].embedding_dim)]
        /\ rags'[1].documents_processed = rags[1].documents_processed + 1

\* C13: process_document of any document, the empty one and the first one
\* ingested included, returns unless the embedding service fails or the
\* dimension differs, and then it returns the chunk count c, appends exactly
\* c entries after the existing ones in chunk order and increments
\* documents_processed by 1.
C13_ProcessDocumentAppendsItsChunks ==
    [][(/\ last'.op = "process_document"
        /\ last'.raised \notin {"EmbeddingServiceError", "AssertionError"})
       => AppendsItsChunks]_vars

(***************************************************************************)
(* Properties of the chunker                                               *)
(***************************************************************************)
\* the words of the text of the last chunk_text call, and their number N
chunked_words == split(chunker.text)

stride == chunker.chunk_size - chunker.overlap

\* chunk_text was called on a chunker with chunk_size > overlap >= 0
ChunkedWithValidConfig ==
    /\ chunker.called
    /\ chunker.chunk_size > chunker.overlap
    /\ chunker.overlap >= 0

\* the chunk holds every word of the text
HoldsWholeDocument(chunk) ==
    /\ chunk.start_idx = 0
    /\ chunk.end_idx = Len(chunked_words)
    /\ split(chunk.text) = chunked_words

\* C14 as stated: a non-empty document with fewer words than chunk_size
\* yields exactly one chunk containing the whole document, and an empty
\* document yields zero chunks.
C14_ShorterThanChunkSizeIsOneChunk ==
    ChunkedWithValidConfig =>
        LET N == Len(chunked_words)
        IN  /\ N = 0 => chunker.chunks = <<>>
            /\ (0 < N /\ N < chunker.chunk_size) =>
                  /\ Len(chunker.chunks) = 1
                  /\ HoldsWholeDocument(chunker.chunks[1])

\* C14 as amended: a non-empty document with at most chunk_size - overlap
\* words yields exactly one chunk containing the whole document, the first
\* chunk of a non-empty document with fewer words than chunk_size contains
\* the whole document, and an empty document yields zero chunks.
C14_WithinStrideIsOneChunk ==
    ChunkedWithValidConfig =>
        LET N == Len(chunked_words)
        IN  /\ chunker.raised = ""
            /\ N = 0 => chunker.chunks = <<>>
            /\ (0 < N /\ N <= stride) => Len(chunker.chunks) = 1
            /\ (0 < N /\ N < chunker.chunk_size) =>
                  /\ Len(chunker.chunks) >= 1
                  /\ HoldsWholeDocument(chunker.chunks[1])

\* a text of several words, as many as the stride, was chunked into one chunk
C14_Witness ==
    /\ ChunkedWithValidConfig
    /\ Len(chunked_words) > 1
    /\ Len(chunked_words) = stride
    /\ Len(chunker.chunks) = 1

\* C15: the chunks are one per window start, the starts being the multiples
\* of chunk_size - overlap below the word count N in ascending order; with
\* chunk_size 500 and overlap 50 a text of 1200 words gives 3 chunks, the
\* second starting at word 450.
C15_StartsAreMultiplesOfStride ==
    ChunkedWithValidConfig =>
        LET N == Len(chunked_words)
            chunks == chunker.chunks
        IN  /\ Len(chunks) = Cardinality({m \in 0..(N - 1) : m % stride = 0})
            /\ \A c \in 1..Len(chunks) :
                  /\ chunks[c].start_idx % stride = 0
                  /\ chunks[c].start_idx < N
                  /\ c > 1 => chunks[c - 1].start_idx < chunks[c].start_idx
            /\ (chunker.chunk_size = 500 /\ chunker.overlap = 50 /\ N = 1200) =>
                  /\ Len(chunks) = 3
                  /\ chunks[2].start_idx = 450

\* the 1200-word text was chunked with chunk_size 500 and overlap 50
C15_Witness ==
    /\ ChunkedWithValidConfig
    /\ chunker.chunk_size = 500
    /\ chunker.overlap = 50
    /\ Len(chunked_words) = 1200
    /\ Len(chunker.chunks) = 3

\* C16: every word offset i in [0, N) lies within the [start_idx, end_idx)
\* bounds of at least one chunk, a word within a chunk's bounds is the word
\* at position i - start_idx of the chunk's text, and no chunk's bounds
\* reach past N.
C16_ChunksCoverEveryWord ==
    ChunkedWithValidConfig =>
        LET words == chunked_words
            N == Len(words)
            chunks == chunker.chunks
        IN  /\ \A i \in 0..(N - 1) :
                  \E c \in 1..Len(chunks) :
                      chunks[c].start_idx <= i /\ i < chunks[c].end_idx
            /\ \A c \in 1..Len(chunks) :
                  LET in_chunk == split(chunks[c].text)
                  IN  /\ chunks[c].end_idx <= N
                      /\ Len(in_chunk) = chunks[c].end_idx - chunks[c].start_idx
                      /\ \A i \in chunks[c].start_idx..(chunks[c].end_idx - 1) :
                            in_chunk[i - chunks[c].start_idx + 1] = words[i + 1]

\* a text was chunked into overlapping chunks, the last one cut short by the
\* end of the text
C16_Witness ==
    /\ ChunkedWithValidConfig
    /\ chunker.overlap > 0
    /\ Len(chunker.chunks) > 2
    /\ LET final == chunker.chunks[Len(chunker.chunks)]
       IN  /\ final.end_idx = Len(chunked_words)
           /\ final.end_idx - final.start_idx < chunker.chunk_size

\* C17: a DocumentChunker is never constructed with overlap >= chunk_size,
\* so chunk_text never runs with a zero or negative stride.
C17_OverlapBelowChunkSize ==
    /\ chunker.init => chunker.overlap < chunker.chunk_size
    /\ chunker.called => stride > 0

(***************************************************************************)
(* Properties of the conversation loop                                     *)
(***************************************************************************)
\* The turns a message of conversation_history stands for: an assistant
\* message that lists tool calls is one ToolInvocation turn per call.
Turn(kind, call_id) == [kind |-> kind, call_id |-> call_id]

TurnsOf(message) ==
    IF message.role = "user" THEN <<Turn("User", 0)>>
    ELSE IF message.role = "tool" THEN <<Turn("ToolResult", message.tool_call_id)>>
    ELSE IF "tool_calls" \in DOMAIN message
    THEN [i \in 1..Len(message.tool_calls) |->
            Turn("ToolInvocation", message.tool_calls[i].id)]
    ELSE <<Turn("Assistant", 0)>>

RECURSIVE Turns(_)
Turns(history) ==
    IF Len(history) = 0 THEN <<>>
    ELSE Turns(SubSeq(history, 1, Len(history) - 1)) \o TurnsOf(history[Len(history)])

CountKind(turns, kind) == Cardinality({i \in 1..Len(turns) : turns[i].kind = kind})

\* the last response answers an /ask request with status 200
AskAnswered == resp.endpoint = "ask" /\ resp.status = 200

\* the history of the session of the last response, as the response left it
AnsweredHistory == SubSeq(history_of(resp.session_id), 1, resp.length)

\* C1: a request whose first model response holds n >= 1 tool invocations
\* extends the history by the User turn, a ToolInvocation turn per call, a
\* ToolResult turn per call with the call's id and an Assistant turn with
\* the text of the second model call; the second call is made only after
\* every ToolResult turn has been appended.
C1_ToolCallsAppendInOrder ==
    /\ (AskAnswered /\ resp.n_calls >= 1) =>
          LET h == AnsweredHistory
              calls == h[resp.base + 2].tool_calls
              n == Len(calls)
          IN  /\ Turns(SubSeq(h, resp.base + 1, resp.length)) =
                    <<Turn("User", 0)>>
                    \o [i \in 1..n |-> Turn("ToolInvocation", calls[i].id)]
                    \o [i \in 1..n |-> Turn("ToolResult", calls[i].id)]
                    \o <<Turn("Assistant", 0)>>
              /\ h[resp.length] = AssistantMessage(resp.answer)
              /\ resp.lm_calls = 2
    /\ (req.pc = "ToolExecuting" /\ req.i > Len(req.calls)) =>
          LET h == history_of(req.session_id)
              n == Len(req.calls)
          IN  /\ Len(h) = req.base + 2 + n
              /\ \A i \in 1..n :
                    /\ h[req.base + 2 + i].role = "tool"
                    /\ h[req.base + 2 + i].tool_call_id = req.calls[i].id

\* C2: a request whose model response holds no tool invocation appends
\* exactly the User turn and an Assistant turn with the response text,
\* makes one language-model call and no retrieval call, and leaves the
\* session awaiting user input.
C2_DirectAnswerAppendsTwoTurns ==
    [][(resp'.endpoint = "ask" /\ resp'.seq = resp.seq + 1 /\ resp'.status = 200
            /\ resp'.n_calls = 0) =>
          LET sid == resp'.session_id
              before == sessions[sid].agent.conversation_history
              after == sessions'[sid].agent.conversation_history
          IN  /\ Len(after) = resp'.base + 2
              /\ Len(before) = resp'.base + 1
              /\ SubSeq(after, 1, resp'.base + 1) = before
              /\ before[resp'.base + 1].role = "user"
              /\ after[resp'.base + 2] = AssistantMessage(resp'.answer)
              /\ resp'.lm_calls = 1
              /\ resp'.retrievals = 0
              /\ req'.pc = "AwaitingUserInput"]_vars

\* a second request of a session was answered directly
C2_Witness ==
    /\ AskAnswered
    /\ resp.n_calls = 0
    /\ resp.base > 0
    /\ resp.length = resp.base + 2
    /\ req.pc = "AwaitingUserInput"

\* C3: the source of a response is "documents" exactly when a ToolResult
\* turn was appended while its own request was processed.
C3_SourceIsOfThisRequest ==
    AskAnswered => (resp.source = "documents" <=> resp.tool_results > 0)

\* C4: in a fresh session a request answered without a tool call is tagged
\* "llm"; a following request answered with exactly one tool call is tagged
\* "documents" and leaves 6 turns: 2 User, 2 Assistant, 1 ToolInvocation
\* and 1 ToolResult.
C4_TwoRequestScenario ==
    /\ (AskAnswered /\ resp.base = 0 /\ resp.n_calls = 0) => resp.source = "llm"
    /\ (/\ AskAnswered
        /\ resp.base = 2
        /\ resp.n_calls = 1
        /\ Turns(SubSeq(AnsweredHistory, 1, 2)) = <<Turn("User", 0), Turn("Assistant", 0)>>)
       => LET turns == Turns(AnsweredHistory)
          IN  /\ resp.source = "documents"
              /\ Len(turns) = 6
              /\ CountKind(turns, "User") = 2
              /\ CountKind(turns, "Assistant") = 2
              /\ CountKind(turns, "ToolInvocation") = 1
              /\ CountKind(turns, "ToolResult") = 1

\* C6: retrieve on a system into which nothing was ingested or loaded
\* returns the empty sequence without raising, so search_documents returns
\* "No relevant documents found.".
C6_RetrieveOnEmptySystem ==
    (/\ last.op = "retrieve"
     /\ last.raised # "EmbeddingServiceError"
     /\ ~the_store.init
     /\ rags[1].documents_processed = 0)
    => /\ last.raised = ""
       /\ last.value = <<>>
       /\ search_documents(rags[1], last.query, FALSE) =
              [raised |-> "", value |-> NoRelevantDocuments]

\* the loop over message.tool_calls is at a search_documents call whose
\* arguments are not valid JSON or hold no query
AtMalformedCall ==
    /\ req.pc = "ToolExecuting"
    /\ req.i <= Len(req.calls)
    /\ req.calls[req.i].function.name = "search_documents"
    /\ ~WellFormedSearch(req.calls[req.i].function)

\* C18: a tool invocation with malformed arguments gets a ToolResult turn
\* for its call id and the request goes on to its final Assistant turn; the
\* request does not fail.
C18_MalformedArgumentsGetToolResult ==
    [][AtMalformedCall =>
          LET sid == req.session_id
              before == sessions[sid].agent.conversation_history
              after == sessions'[sid].agent.conversation_history
          IN  /\ Len(after) = Len(before) + 1
              /\ SubSeq(after, 1, Len(before)) = before
              /\ TurnsOf(after[Len(after)]) =
                     <<Turn("ToolResult", req.calls[req.i].id)>>
              /\ req'.pc = "ToolExecuting"
              /\ req'.i = req.i + 1
              /\ resp' = resp]_vars

\* the last response is the failure of an /ask request in a language-model
\* call or in a retrieval call
FailedInExternalCall ==
    /\ resp.endpoint = "ask"
    /\ resp.status = 500
    /\ resp.lm_calls + resp.retrievals > 0
    /\ resp.detail \notin {"JSONDecodeError", "KeyError"}

\* C19: a request that fails in a language-model call or a retrieval call
\* leaves the session history as it was before the request.
C19_FailedRequestLeavesHistory ==
    FailedInExternalCall => resp.length = resp.base

\* the step belongs to the processing of an /ask request for session A
ProcessingFor(A) ==
    \/ req.pc # "AwaitingUserInput" /\ req.session_id = A
    \/ /\ req.pc = "AwaitingUserInput"
       /\ req'.pc # "AwaitingUserInput"
       /\ req'.session_id = A
    \/ /\ req.pc = "AwaitingUserInput"
       /\ resp'.endpoint = "ask"
       /\ resp'.seq = resp.seq + 1
       /\ resp'.session_id = A

\* C20: no step of the processing of an /ask request for session A changes
\* the history of another session B or B's entry in the session map.
C20_OtherSessionsUntouched ==
    [][\A A \in SessionIds : ProcessingFor(A) =>
          \A B \in SessionIds \ {A} :
              /\ B \in DOMAIN sessions <=> B \in DOMAIN sessions'
              /\ B \in DOMAIN sessions => sessions'[B] = sessions[B]]_vars

\* a request of s1 was answered and one failed while s2 held a history
C20_Witness ==
    /\ resp.endpoint = "ask"
    /\ resp.session_id = "s1"
    /\ resp.status = 500
    /\ resp.length > resp.base
    /\ "s2" \in DOMAIN sessions
    /\ Len(history_of("s2")) > 0

returned_distances ==
    LET found == search(the_store, Embed(last.query, rags[1].embedding_dim), last.k)
    IN  [i \in 1..Len(found.results) |-> found.results[i].distance]

\* C22: every relevance score retrieve returns is a fraction in (0, 1],
\* and of two results the one with the larger distance never has the larger
\* score.
C22_RelevanceScoreInUnitInterval ==
    (last.op = "retrieve" /\ last.raised = "") =>
        LET score == [i \in 1..Len(last.value) |-> last.value[i].relevance_score]
            distance == returned_distances
        IN  /\ Len(distance) = Len(score)
            /\ \A i \in 1..Len(score) :
                  /\ distance[i] >= 0
                  /\ score[i][2] > 0
                  /\ 0 < score[i][1]
                  /\ score[i][1] <= score[i][2]
            /\ \A i, j \in 1..Len(score) :
                  distance[i] > distance[j] =>
                      score[i][1] * score[j][2] <= score[j][1] * score[i][2]

\* a retrieve call returned two results at different distances, the
\* nearer one with the larger score
C22_Witness ==
    /\ last.op = "retrieve"
    /\ last.raised = ""
    /\ \E i, j \in 1..Len(last.value) :
          /\ returned_distances[i] < returned_distances[j]
          /\ last.value[i].relevance_score[2] < last.value[j].relevance_score[2]

IngestedOnce(files) ==
    process_documents_from_directory(RAGSystem(rags[1].embedding_dim), files, 0).rag

\* C24: a returning process_documents_from_directory call on a RAGSystem
\* that holds what one such call on the same directory left appends every
\* entry once more: the index vectors, the chunks and documents_processed
\* double. A returning build_rag_index call that follows a returning one on
\* the same directory leaves the RAGSystem and the index directory as they
\* were; and applied to the state a build starts from, two /rebuild-index
\* runs that complete leave the RAGSystem and the index directory that one
\* run leaves.
C24_ReingestDuplicatesRebuildDoesNot ==
    [][/\ (/\ last'.op = "process_documents_from_directory"
            /\ last'.raised = ""
            /\ rags[1] = IngestedOnce(last'.files)) =>
              /\ rags'[1].vector_store.index.xb =
                     the_store.index.xb \o the_store.index.xb
              /\ rags'[1].vector_store.chunks = the_store.chunks \o the_store.chunks
              /\ rags'[1].documents_processed = 2 * rags[1].documents_processed
              /\ Len(rags'[1].vector_store.index.xb) = 2 * entry_count
       /\ (/\ last'.op = "build_rag_index"
            /\ last'.raised = ""
            /\ last.op = "build_rag_index"
            /\ last.raised = ""
            /\ last'.files = last.files) =>
              /\ rags' = rags
              /\ disk' = disk
       /\ last'.op = "build_rag_index" =>
           \A files \in Listings :
              LET once == rebuild_index(rags, disk, rags[1].embedding_dim, files, 0, "")
                  twice == rebuild_index(once.rags, once.disk, rags[1].embedding_dim,
                                         files, 0, "")
              IN  once.status = 200 =>
                    /\ twice.status = 200
                    /\ twice.rags[twice.rag_system] = once.rags[once.rag_system]
                    /\ twice.disk = once.disk]_vars

\* a second process_documents_from_directory call has doubled the entries
\* of the first
C24_Witness ==
    /\ last.op = "process_documents_from_directory"
    /\ last.raised = ""
    /\ entry_count = 2 * Len(IngestedOnce(last.files).vector_store.chunks)
    /\ rags[1].documents_processed = 2 * Len(last.files)
    /\ the_store.chunks[1] = the_store.chunks[2]

\* the chunks of the first k files of a listing, in the order of ingestion
RECURSIVE ChunksOfFiles(_, _)
ChunksOfFiles(files, k) ==
    IF k = 0 THEN <<>>
    ELSE ChunksOfFiles(files, k - 1) \o document_chunks[files[k]]

\* C25: process_documents_from_directory returns only when every file of
\* the directory was ingested. When process_document raises for a file the
\* call raises that exception and returns no results; the files before the
\* failing one stay ingested (their chunks and index entries appended,
\* documents_processed counting them) and no later file is processed.
C25_DirectoryIngestionAborts ==
    [][last'.op = "process_documents_from_directory" =>
          LET files == last'.files
              k == rags'[1].documents_processed - rags[1].documents_processed
          IN  IF last'.raised = ""
              THEN /\ k = Len(files)
                   /\ Len(last'.value) = Len(files)
                   /\ \A i \in 1..Len(files) : last'.value[i].name = files[i]
              ELSE /\ k \in 0..(Len(files) - 1)
                   /\ last'.value = <<>>
                   /\ process_document(rags'[1], files[k + 1],
                                       IF last'.fail_at = k + 1 THEN 1 ELSE 0).raised
                          = last'.raised
                   /\ rags'[1].vector_store.chunks =
                          the_store.chunks \o ChunksOfFiles(files, k)
                   /\ Len(rags'[1].vector_store.index.xb) =
                          entry_count + Len(ChunksOfFiles(files, k))]_vars

\* a call on a directory of three files has raised at the second file, no
\* embeddings.create call failing: the first file is ingested, the third is
\* not
C25_Witness ==
    /\ last.op = "process_documents_from_directory"
    /\ last.raised # ""
    /\ last.fail_at = 0
    /\ Len(last.files) = 3
    /\ rags[1].documents_processed = 1
    /\ the_store.chunks = document_chunks[last.files[1]]
    /\ entry_count = 1

\* the step is the start of the handler of an /ask request for sid: it
\* either reaches the first language-model call or fails before it
AskStep(sid) ==
    /\ req.pc = "AwaitingUserInput"
    /\ \/ req'.pc = "ModelDeciding" /\ req'.session_id = sid
       \/ /\ resp'.endpoint = "ask"
          /\ resp'.seq = resp.seq + 1
          /\ resp'.session_id = sid

\* the step is the handler of DELETE /sessions/sid
DeleteStep(sid) ==
    /\ resp' # resp
    /\ resp'.endpoint = "delete_session"
    /\ resp'.session_id = sid

\* C26 as stated: after every /ask for a session id the id is present in
\* the session map.
C26_EveryAskLeavesItsSession ==
    [][\A sid \in SessionIds : AskStep(sid) => sid \in DOMAIN sessions']_vars

\* C26 (amended): a session id becomes present only by an /ask for it, with
\* a history that holds the user message of that request alone, and is
\* present after every /ask for it that got past the construction of its
\* agent; an /ask for an absent id that fails in that construction leaves
\* the session map as it was. A session id becomes absent only by its
\* deletion, which removes it and leaves every other session as it was; the
\* deletion of an absent id answers 404 and changes nothing else.
C26_SessionLifecycle ==
    [][\A sid \in SessionIds :
          LET was == sid \in DOMAIN sessions
              is == sid \in DOMAIN sessions'
          IN  /\ (is /\ ~was) =>
                    /\ AskStep(sid)
                    /\ sessions'[sid].agent.conversation_history =
                           <<UserMessage(UserQuery)>>
              /\ (AskStep(sid) /\ req'.pc = "ModelDeciding") => is
              /\ (AskStep(sid) /\ req'.pc # "ModelDeciding") =>
                    /\ ~was
                    /\ resp'.status = 500
                    /\ sessions' = sessions
              /\ (was /\ ~is) => DeleteStep(sid)
              /\ DeleteStep(sid) =>
                    IF was
                    THEN /\ resp'.status = 200
                         /\ DOMAIN sessions' = DOMAIN sessions \ {sid}
                         /\ \A other \in DOMAIN sessions' :
                               sessions'[other] = sessions[other]
                    ELSE /\ resp'.status = 404
                         /\ UNCHANGED <<sessions, rags, rag_system, req, disk>>]_vars

\* a session was deleted while another session with a history stayed
C26_Witness ==
    /\ resp.endpoint = "delete_session"
    /\ resp.status = 200
    /\ resp.session_id \notin DOMAIN sessions
    /\ \E other \in DOMAIN sessions : Len(history_of(other)) > 1

\* the last response ends an /ask request whose process_query made a
\* language-model call and in which no language-model call and no
\* embeddings call raised; its session is still in the session map
EndedWithExternalCallsReturning ==
    /\ resp.endpoint = "ask"
    /\ resp.lm_calls >= 1
    /\ resp.detail \notin {"LanguageModelError", "EmbeddingServiceError"}
    /\ resp.session_id \in DOMAIN sessions

\* C27: a request whose external calls all returned has made at most two
\* language-model calls and has ended with an answer, an Assistant turn
\* being the last turn it left in the history.
C27_ReturningCallsEndWithAssistantTurn ==
    EndedWithExternalCallsReturning =>
        /\ resp.lm_calls <= 2
        /\ resp.status = 200
        /\ TurnsOf(AnsweredHistory[resp.length]) = <<Turn("Assistant", 0)>>

\* C28: when the second language-model call is about to be issued, every
\* tool-call id of the assistant message that lists the tool calls has a
\* tool message with that id after it, whatever function the call names.
C28_EveryCallIdHasToolResult ==
    (req.pc = "ToolExecuting" /\ req.i > Len(req.calls)) =>
        LET h == history_of(req.session_id)
            listed == h[req.base + 2].tool_calls
        IN  \A c \in 1..Len(listed) :
               \E j \in (req.base + 3)..Len(h) :
                  /\ h[j].role = "tool"
                  /\ h[j].tool_call_id = listed[c].id

(***************************************************************************)
(* Properties of /rebuild-index                                            *)
(***************************************************************************)
\* C29: when /rebuild-index has completed, the retrieval tool of every
\* session, those created before the rebuild included, returns what the
\* newly built index returns.
C29_SessionsRetrieveFromRebuiltIndex ==
    (resp.endpoint = "rebuild_index" /\ resp.status = 200) =>
        \A sid \in DOMAIN sessions :
           search_documents(rags[sessions[sid].agent.rag_system], UserQuery, FALSE)
              = search_documents(rags[rag_system], UserQuery, FALSE)

\* the step is a /rebuild-index handler that ends with status 500
RebuildFails ==
    /\ Len(rags') = Len(rags) + 1
    /\ resp'.endpoint = "rebuild_index"
    /\ resp'.status = 500

\* C30: a /rebuild-index that fails while a RAGSystem is serving leaves
\* that RAGSystem, with its entries, the one get_rag_system returns.
C30_FailedRebuildKeepsServingSystem ==
    [][(RebuildFails /\ rag_system # 0) =>
          /\ rag_system' = rag_system
          /\ rags'[rag_system'] = rags[rag_system]]_vars

(***************************************************************************)
(* Properties of get_rag_system                                            *)
(***************************************************************************)
\* C31: no session is given a RAGSystem whose load_index raised: when the
\* index directory exists, the RAGSystem the agent of a session holds is one
\* that load_index loaded from the directory without an exception.
C31_NoSessionGetsPartiallyLoadedSystem ==
    \A sid \in DOMAIN sessions :
       LET loaded == load_index(RAGSystem(ServiceDim), disk)
       IN  disk.dir =>
             /\ loaded.raised = ""
             /\ rags[sessions[sid].agent.rag_system] = loaded.rag

====
